---------------------------- MODULE Spec2Model ----------------------------
(***************************************************************************)
(* Model of the two RPN calculators of the repository:                     *)
(*   src/rcalc.rs  the unit-aware calculator (Unit, Calculator, main)      *)
(*   src/calc.rs   the simpler calculator without conversion factors       *)
(*                                                                         *)
(* A run is the evaluation of one argument list: args is the list, i the   *)
(* position of the for loop, stack the calculator's stack, stdout/stderr   *)
(* the lines written so far, pc/exit how the process ended.                *)
(*                                                                         *)
(* f64 is modelled as a binary floating-point format with the IEEE 754     *)
(* rules (round to nearest even, signed zero, subnormals, overflow to      *)
(* infinity, NaN) and a reduced width: Prec significand bits and exponents *)
(* in -EminMag .. Emax.                                                    *)
(***************************************************************************)
EXTENDS Integers, Sequences, FiniteSets, TLC

\* ------------------------------------------------------------------ bounds
Prec == 8
Emax == 20
EminMag == 20
MaxArgs == 4
MaxTokLen == 3
\* most operands in a run of operands followed by their operators
MaxOperands == 4

MaxCalcArgs == 4

\* ------------------------------------------------------- f64, reduced width
\* A float is [cls, neg, m, q]: cls "fin" is (-1)^neg * m * 2^q with m < 2^Prec,
\* normal when m >= 2^(Prec-1), subnormal (or zero) when q = Qmin.
Qmin == 0 - EminMag - Prec + 1
Qmax == Emax - Prec + 1

RECURSIVE Pow2(_)
Pow2(k) == IF k <= 0 THEN 1 ELSE 2 * Pow2(k - 1)

RECURSIVE BitLen(_)
BitLen(m) == IF m = 0 THEN 0 ELSE 1 + BitLen(m \div 2)

Max(a, b) == IF a >= b THEN a ELSE b
Min(a, b) == IF a <= b THEN a ELSE b

NaN == [cls |-> "nan", neg |-> FALSE, m |-> 0, q |-> 0]
Inf(neg) == [cls |-> "inf", neg |-> neg, m |-> 0, q |-> 0]
Zero(neg) == [cls |-> "fin", neg |-> neg, m |-> 0, q |-> Qmin]

IsNaN(x) == x.cls = "nan"
IsInf(x) == x.cls = "inf"
IsZero(x) == x.cls = "fin" /\ x.m = 0

\* m / 2^s rounded to the nearest integer, ties to even (s >= 0)
RoundShift(m, s) ==
    IF s = 0 THEN m
    ELSE IF s > BitLen(m) + 1 THEN 0
    ELSE LET hi == m \div Pow2(s)
             lo == m % Pow2(s)
             half == Pow2(s - 1)
         IN  IF lo > half \/ (lo = half /\ hi % 2 = 1) THEN hi + 1 ELSE hi

\* the float nearest to (-1)^neg * m * 2^q
MkFin(neg, m, q) ==
    IF m = 0 THEN Zero(neg)
    ELSE LET q1 == Max(q + BitLen(m) - Prec, Qmin)
             m1 == IF q1 >= q THEN RoundShift(m, q1 - q) ELSE m * Pow2(q - q1)
             carry == m1 = Pow2(Prec)
             m2 == IF carry THEN Pow2(Prec - 1) ELSE m1
             q2 == IF carry THEN q1 + 1 ELSE q1
         IN  IF m2 = 0 THEN Zero(neg)
             ELSE IF q2 > Qmax THEN Inf(neg)
             ELSE [cls |-> "fin", neg |-> neg, m |-> m2, q |-> q2]

\* the float nearest to (-1)^neg * (n / d) * 2^q, d > 0
MkRat(neg, n, d, q) ==
    IF n = 0 THEN Zero(neg)
    ELSE LET s == Max(0, Prec + 2 + BitLen(d) - BitLen(n))
             qt == (n * Pow2(s)) \div d
             sticky == IF (n * Pow2(s)) % d = 0 THEN 0 ELSE 1
         IN  MkFin(neg, 2 * qt + sticky, q - s - 1)

FromInt(k) == MkFin(k < 0, IF k < 0 THEN 0 - k ELSE k, 0)
FromDec(n, d) == MkRat(FALSE, n, d, 0)
FNeg(x) == IF IsNaN(x) THEN x ELSE [x EXCEPT !.neg = ~x.neg]

\* a * b
FMul(a, b) ==
    IF IsNaN(a) \/ IsNaN(b) THEN NaN
    ELSE IF (IsInf(a) /\ IsZero(b)) \/ (IsZero(a) /\ IsInf(b)) THEN NaN
    ELSE IF IsInf(a) \/ IsInf(b) THEN Inf(a.neg # b.neg)
    ELSE MkFin(a.neg # b.neg, a.m * b.m, a.q + b.q)

\* a / b
FDiv(a, b) ==
    IF IsNaN(a) \/ IsNaN(b) THEN NaN
    ELSE IF (IsInf(a) /\ IsInf(b)) \/ (IsZero(a) /\ IsZero(b)) THEN NaN
    ELSE IF IsInf(a) \/ IsZero(b) THEN Inf(a.neg # b.neg)
    ELSE IF IsInf(b) THEN Zero(a.neg # b.neg)
    ELSE MkRat(a.neg # b.neg, a.m, b.m, a.q - b.q)

\* a + b
FAdd(a, b) ==
    IF IsNaN(a) \/ IsNaN(b) THEN NaN
    ELSE IF IsInf(a) /\ IsInf(b) THEN (IF a.neg = b.neg THEN a ELSE NaN)
    ELSE IF IsInf(a) THEN a
    ELSE IF IsInf(b) THEN b
    ELSE IF IsZero(a) /\ IsZero(b) THEN Zero(a.neg /\ b.neg)
    ELSE IF IsZero(a) THEN b
    ELSE IF IsZero(b) THEN a
    ELSE LET hi == IF a.q >= b.q THEN a ELSE b
             lo == IF a.q >= b.q THEN b ELSE a
             far == hi.q - lo.q > Prec + 3
             \* far apart: the small operand only decides the rounding
             sh == IF far THEN 3 ELSE hi.q - lo.q
             lm == IF far THEN 1 ELSE lo.m
             s == (IF hi.neg THEN 0 - hi.m ELSE hi.m) * Pow2(sh)
                  + (IF lo.neg THEN 0 - lm ELSE lm)
         IN  IF s = 0 THEN Zero(FALSE)
             ELSE MkFin(s < 0, IF s < 0 THEN 0 - s ELSE s, hi.q - sh)

FSub(a, b) == FAdd(a, FNeg(b))

\* a % b (fmod: exact, sign of a)
FRem(a, b) ==
    IF IsNaN(a) \/ IsNaN(b) \/ IsInf(a) \/ IsZero(b) THEN NaN
    ELSE IF IsInf(b) \/ IsZero(a) THEN a
    ELSE LET q == Min(a.q, b.q)
             am == a.m * Pow2(a.q - q)
             bm == b.m * Pow2(b.q - q)
         IN  MkFin(a.neg, am % bm, q)


\* {:.4}: the decimal expansion rounded to 4 places, as [cls, neg, ip, fp]
\* (ip the integer part, fp the 4 fraction digits as a number 0..9999)
Fmt4(x) ==
    IF x.cls # "fin" THEN [cls |-> x.cls, neg |-> x.neg /\ IsInf(x), ip |-> 0, fp |-> 0]
    ELSE IF x.q >= 0 THEN [cls |-> "fin", neg |-> x.neg, ip |-> x.m * Pow2(x.q), fp |-> 0]
    ELSE LET den == Pow2(0 - x.q)
             ip0 == x.m \div den
             sc == (x.m % den) * 10000
             f == sc \div den
             r == sc % den
             f1 == IF 2 * r > den \/ (2 * r = den /\ f % 2 = 1) THEN f + 1 ELSE f
         IN  [cls |-> "fin", neg |-> x.neg,
              ip |-> IF f1 = 10000 THEN ip0 + 1 ELSE ip0,
              fp |-> IF f1 = 10000 THEN 0 ELSE f1]

\* ------------------------------------------------------------------ tokens
\* A token (one command-line argument) is a sequence of one-character strings.
Digits == {"0", "1", "2", "3", "4", "5", "6", "7", "8", "9"}

DigitVal(c) ==
    CASE c = "0" -> 0 [] c = "1" -> 1 [] c = "2" -> 2 [] c = "3" -> 3 [] c = "4" -> 4
      [] c = "5" -> 5 [] c = "6" -> 6 [] c = "7" -> 7 [] c = "8" -> 8 [] c = "9" -> 9

RECURSIVE Pow10(_)
Pow10(k) == IF k <= 0 THEN 1 ELSE 10 * Pow10(k - 1)

\* the digits of s read as one decimal number, the point skipped
RECURSIVE DigitsValue(_)
DigitsValue(s) ==
    IF s = <<>> THEN 0
    ELSE LET c == s[Len(s)]
             front == SubSeq(s, 1, Len(s) - 1)
         IN  IF c = "." THEN DigitsValue(front) ELSE 10 * DigitsValue(front) + DigitVal(c)

\* how many digits follow the point (0 when there is none)
FracDigits(s) ==
    IF \E k \in 1..Len(s) : s[k] = "."
    THEN Len(s) - (CHOOSE k \in 1..Len(s) : s[k] = ".")
    ELSE 0

IsDecimal(s) ==
    /\ \A k \in 1..Len(s) : s[k] \in Digits \cup {"."}
    /\ Cardinality({k \in 1..Len(s) : s[k] = "."}) <= 1
    /\ \E k \in 1..Len(s) : s[k] \in Digits

\* str::parse::<f64>: [sign] (decimal | inf | infinity | nan); the exponent form
\* (1e3) and upper case are outside the alphabets the arguments are drawn from.
ParseF64(s) ==
    LET signed == Len(s) > 0 /\ s[1] \in {"+", "-"}
        neg == signed /\ s[1] = "-"
        rest == IF signed THEN Tail(s) ELSE s
    IN  IF rest = <<>> THEN [ok |-> FALSE, value |-> NaN]
        ELSE IF IsDecimal(rest)
             THEN [ok |-> TRUE,
                   value |-> MkRat(neg, DigitsValue(rest), Pow10(FracDigits(rest)), 0)]
        ELSE IF rest \in {<<"i", "n", "f">>, <<"i", "n", "f", "i", "n", "i", "t", "y">>}
             THEN [ok |-> TRUE, value |-> Inf(neg)]
        ELSE IF rest = <<"n", "a", "n">> THEN [ok |-> TRUE, value |-> NaN]
        ELSE [ok |-> FALSE, value |-> NaN]

\* ------------------------------------------------------- rcalc.rs: Unit
UnitNew(value, numerator, denominator, factor) ==
    [value |-> value, numerator |-> numerator, denominator |-> denominator,
     factor |-> factor]

\* Convert with the differing numerators joined self first
ConvertSelfFirst(self, other) ==
    LET numerator == IF self.numerator = other.numerator
                     THEN other.numerator
                     ELSE self.numerator \o other.numerator
        denominator == IF self.denominator = other.denominator
                       THEN other.denominator
                       ELSE self.denominator \o other.denominator
        factor == FMul(other.factor, self.factor)
    IN  <<FDiv(FMul(self.value, factor), other.value), numerator, denominator>>

\* Unit::convert: <<value, numerator, denominator>>
Convert(self, other) ==
    LET numerator == IF self.numerator = other.numerator
                     THEN other.numerator
                     ELSE other.numerator \o self.numerator
        denominator == IF self.denominator = other.denominator
                       THEN other.denominator
                       ELSE self.denominator \o other.denominator
        factor == FMul(other.factor, self.factor)
    IN  <<FDiv(FMul(self.value, factor), other.value), numerator, denominator>>

\* ------------------------------------------------- rcalc.rs: Calculator
\* The methods are operators from the stack to [stack, err]: the stack they
\* leave and the lines they write to the diagnostic stream.
NotEnough == <<"Error: not enough operands">>

Push(st, value, numerator, denominator, factor) ==
    Append(st, UnitNew(value, numerator, denominator, factor))

\* Option<Unit>: some tells Some from None
Pop(st) ==
    IF st = <<>> THEN [some |-> FALSE, stack |-> st]
    ELSE [some |-> TRUE, unit |-> st[Len(st)], stack |-> SubSeq(st, 1, Len(st) - 1)]

\* PopTwo with the second pop left out
PopTwoLeavesB(st) ==
    LET p1 == Pop(st)
        p2 == Pop(p1.stack)
    IN  [some |-> p1.some /\ p2.some, a |-> p1, b |-> p2, stack |-> p1.stack]

\* PopTwo with a third pop
PopTwoPopsThird(st) ==
    LET p1 == Pop(st)
        p2 == Pop(p1.stack)
    IN  [some |-> p1.some /\ p2.some, a |-> p1, b |-> p2, stack |-> Pop(p2.stack).stack]

\* (self.pop(), self.pop()): both pops run before the pattern is matched
PopTwo(st) ==
    LET p1 == Pop(st)
        p2 == Pop(p1.stack)
    IN  [some |-> p1.some /\ p2.some, a |-> p1, b |-> p2, stack |-> p2.stack]

\* Add with the diagnostic left out
AddSilent(st) ==
    LET p == PopTwo(st)
    IN  IF p.some
        THEN LET c == Convert(p.b.unit, p.a.unit)
             IN  [stack |-> Push(p.stack, c[1], c[2], c[3], p.a.unit.factor), err |-> <<>>]
        ELSE [stack |-> p.stack, err |-> <<>>]

Add(st) ==
    LET p == PopTwo(st)
    IN  IF p.some
        THEN LET c == Convert(p.b.unit, p.a.unit)
             IN  [stack |-> Push(p.stack, c[1], c[2], c[3], p.a.unit.factor), err |-> <<>>]
        ELSE [stack |-> p.stack, err |-> <<NotEnough>>]

\* Sub taking the difference of the two values
SubSubtracts(st) ==
    LET p == PopTwo(st)
    IN  IF p.some
        THEN LET c == Convert(p.b.unit, p.a.unit)
             IN  [stack |-> Push(p.stack, FSub(p.b.unit.value, p.a.unit.value),
                                 c[2], c[3], p.a.unit.factor),
                  err |-> <<>>]
        ELSE [stack |-> p.stack, err |-> <<NotEnough>>]

Sub(st) ==
    LET p == PopTwo(st)
    IN  IF p.some
        THEN LET c == Convert(p.b.unit, p.a.unit)
             IN  [stack |-> Push(p.stack, c[1], c[2], c[3], p.a.unit.factor), err |-> <<>>]
        ELSE [stack |-> p.stack, err |-> <<NotEnough>>]

\* Mul with the value divided, as in div
MulDividesValue(st) ==
    LET p == PopTwo(st)
    IN  IF p.some
        THEN LET a == p.a.unit
                 b == p.b.unit
             IN  [stack |-> Push(p.stack, FDiv(a.value, b.value),
                                 a.numerator \o b.numerator,
                                 a.denominator \o b.denominator,
                                 FMul(a.factor, b.factor)),
                  err |-> <<>>]
        ELSE [stack |-> p.stack, err |-> <<NotEnough>>]

Mul(st) ==
    LET p == PopTwo(st)
    IN  IF p.some
        THEN LET a == p.a.unit
                 b == p.b.unit
             IN  [stack |-> Push(p.stack, FMul(a.value, b.value),
                                 a.numerator \o b.numerator,
                                 a.denominator \o b.denominator,
                                 FMul(a.factor, b.factor)),
                  err |-> <<>>]
        ELSE [stack |-> p.stack, err |-> <<NotEnough>>]

\* Div with the operands of the value swapped
DivSwapped(st) ==
    LET p == PopTwo(st)
    IN  IF p.some
        THEN LET a == p.a.unit
                 b == p.b.unit
             IN  [stack |-> Push(p.stack, FDiv(a.value, b.value),
                                 a.denominator \o b.numerator,
                                 a.numerator \o b.denominator,
                                 FDiv(b.factor, a.factor)),
                  err |-> <<>>]
        ELSE [stack |-> p.stack, err |-> <<NotEnough>>]

\* Div with the value multiplied, as in mul
DivMultipliesValue(st) ==
    LET p == PopTwo(st)
    IN  IF p.some
        THEN LET a == p.a.unit
                 b == p.b.unit
             IN  [stack |-> Push(p.stack, FMul(b.value, a.value),
                                 a.denominator \o b.numerator,
                                 a.numerator \o b.denominator,
                                 FDiv(b.factor, a.factor)),
                  err |-> <<>>]
        ELSE [stack |-> p.stack, err |-> <<NotEnough>>]

Div(st) ==
    LET p == PopTwo(st)
    IN  IF p.some
        THEN LET a == p.a.unit
                 b == p.b.unit
             IN  [stack |-> Push(p.stack, FDiv(b.value, a.value),
                                 a.denominator \o b.numerator,
                                 a.numerator \o b.denominator,
                                 FDiv(b.factor, a.factor)),
                  err |-> <<>>]
        ELSE [stack |-> p.stack, err |-> <<NotEnough>>]

\* Calculator::mean. The source breaks off inside the fold (rcalc.rs:101-102);
\* the body follows the design text: sum the values from 0.0, divide by the
\* count, clear the stack, push one Unit with empty labels; an empty stack is
\* reported and left as it is.
RECURSIVE SumValues(_)
SumValues(st) ==
    IF st = <<>> THEN Zero(FALSE)
    ELSE FAdd(SumValues(SubSeq(st, 1, Len(st) - 1)), st[Len(st)].value)

Mean(st) ==
    IF st = <<>> THEN [stack |-> st, err |-> <<NotEnough>>]
    ELSE [stack |-> <<UnitNew(FDiv(SumValues(st), FromInt(Len(st))), <<>>, <<>>, FromInt(1))>>,
          err |-> <<>>]

\* ------------------------------------------------------- rcalc.rs: main
\* the table main builds before the loop (lines 111-119)
ConversionKeys ==
    {<<"k", "m">>, <<"m">>, <<"c", "m">>, <<"m", "m">>,
     <<"m", "i">>, <<"y", "d">>, <<"f", "t">>, <<"i", "n">>}

Conversions ==
    [k \in ConversionKeys |->
        CASE k = <<"k", "m">> -> FromDec(1000, 1)
          [] k = <<"m">>      -> FromDec(1, 1)
          [] k = <<"c", "m">> -> FromDec(1, 100)
          [] k = <<"m", "m">> -> FromDec(1, 1000)
          [] k = <<"m", "i">> -> FromDec(1609344, 1000)
          [] k = <<"y", "d">> -> FromDec(9144, 10000)
          [] k = <<"f", "t">> -> FromDec(3048, 10000)
          [] k = <<"i", "n">> -> FromDec(254, 10000)]

\* the operator arms of the match
TokAdd == <<"+">>
TokSub == <<"-">>
TokMul == {<<"*">>, <<".">>}
TokDiv == <<"/">>
TokMean == <<"m", "e", "a", "n">>
OperatorTokens == {TokAdd, TokSub, TokDiv, TokMean} \cup TokMul

\* SplitMid one character late
SplitMidOffByOne(s) == Len(s) - 1

\* s.split_at(len - 2): len - 2 underflows (debug build: overflow panic) or
\* wraps past the end (release build: split_at panics) when len < 2
SplitMid(s) == Len(s) - 2
SplitPanics(s) == SplitMid(s) < 0
SplitNumerator(s) == SubSeq(s, 1, SplitMid(s))
SplitDenominator(s) == SubSeq(s, SplitMid(s) + 1, Len(s))

\* println!("{:.4} {}/{}", value, numerator, denominator)
FormatUnit(u) == [value |-> Fmt4(u.value), units |-> u.numerator \o <<"/">> \o u.denominator]

\* StackLines from the top down
StackLinesReversed(st) == [k \in 1..Len(st) |-> FormatUnit(st[Len(st) + 1 - k])]

\* for unit in calculator.stack.iter(): the lines, in the order they are printed
StackLines(st) == [k \in 1..Len(st) |-> FormatUnit(st[k])]

UnknownOperatorLine(s) == <<"Error: unknown operator", s>>
PanicLine == <<"thread 'main' panicked">>

\* ---------------------------------------------------------- the arguments
\* the argument lists the unit-aware calculator is run on
RcalcTokens ==
    OperatorTokens \cup
    {<<"0">>, <<"2">>, <<"1", "k", "m">>, <<"2", "c", "m">>, <<"f", "o", "o">>, <<"x">>}

Alphabet == {"1", "+", "-", ".", "k", "m", "c", "i", "n", "f", "y", "d", "t"}

AllTokens == UNION {[1..k -> Alphabet] : k \in 0..MaxTokLen}

ArgLists(tokens, n) == UNION {[1..k -> tokens] : k \in 0..n}

\* conversions and stack are the Calculator's two fields
VARIABLES args, conversions, i, stack, stdout, stderr, pc, exit

vars == <<args, conversions, i, stack, stdout, stderr, pc, exit>>

\* env::args().collect(), Calculator::new(conversions)
Init ==
    /\ args \in ArgLists(RcalcTokens, MaxArgs) \cup {<<t>> : t \in AllTokens}
    /\ conversions = Conversions
    /\ i = 1
    /\ stack = <<>>
    /\ stdout = <<>>
    /\ stderr = <<>>
    /\ pc = "loop"
    /\ exit = -1

\* the loop is at an argument
AtArg == pc = "loop" /\ i <= Len(args)

\* a Calculator method ran and the loop went on
Call(r) ==
    /\ stack' = r.stack
    /\ stderr' = stderr \o r.err
    /\ i' = i + 1
    /\ UNCHANGED <<args, conversions, stdout, pc, exit>>

DoAdd == AtArg /\ args[i] = TokAdd /\ Call(Add(stack))

DoSub == AtArg /\ args[i] = TokSub /\ Call(Sub(stack))

DoMul == AtArg /\ args[i] \in TokMul /\ Call(Mul(stack))

DoDiv == AtArg /\ args[i] = TokDiv /\ Call(Div(stack))

DoMean == AtArg /\ args[i] = TokMean /\ Call(Mean(stack))

\* s => ... Ok(value): a plain number
PushNumber ==
    /\ AtArg
    /\ args[i] \notin OperatorTokens
    /\ ParseF64(args[i]).ok
    /\ Call([stack |-> Push(stack, ParseF64(args[i]).value, <<>>, <<>>, FromInt(1)),
             err |-> <<>>])

\* s => ... the split panics
SplitAtPanic ==
    /\ AtArg
    /\ args[i] \notin OperatorTokens
    /\ ~ParseF64(args[i]).ok
    /\ SplitPanics(args[i])
    /\ stderr' = Append(stderr, PanicLine)
    /\ pc' = "panicked"
    /\ exit' = 101
    /\ UNCHANGED <<args, conversions, i, stack, stdout>>

\* s => ... Some(&factor): a unit-suffixed token
PushUnit ==
    /\ AtArg
    /\ args[i] \notin OperatorTokens
    /\ ~ParseF64(args[i]).ok
    /\ ~SplitPanics(args[i])
    /\ SplitDenominator(args[i]) \in DOMAIN conversions
    /\ Call([stack |-> Push(stack, FromInt(1), SplitNumerator(args[i]),
                            SplitDenominator(args[i]),
                            conversions[SplitDenominator(args[i])]),
             err |-> <<>>])

\* s => ... None: eprintln and return from main
UnknownOperator ==
    /\ AtArg
    /\ args[i] \notin OperatorTokens
    /\ ~ParseF64(args[i]).ok
    /\ ~SplitPanics(args[i])
    /\ SplitDenominator(args[i]) \notin DOMAIN conversions
    /\ stderr' = Append(stderr, UnknownOperatorLine(args[i]))
    /\ pc' = "returned"
    /\ exit' = 0
    /\ UNCHANGED <<args, conversions, i, stack, stdout>>

\* the loop is over: print the stack and end
PrintStack ==
    /\ pc = "loop"
    /\ i > Len(args)
    /\ stdout' = stdout \o StackLines(stack)
    /\ pc' = "done"
    /\ exit' = 0
    /\ UNCHANGED <<args, conversions, i, stack, stderr>>

Next ==
    \/ DoAdd
    \/ DoSub
    \/ DoMul
    \/ DoDiv
    \/ DoMean
    \/ PushNumber
    \/ SplitAtPanic
    \/ PushUnit
    \/ UnknownOperator
    \/ PrintStack

Spec == Init /\ [][Next]_vars

\* ------------------------------------------- rcalc.rs on unitless values
\* plain numbers: zero, integers, fractions that round, infinities and NaN
ValueTokens ==
    {<<"0">>, <<"1">>, <<"-", "1">>, <<"2">>, <<"1", "1">>, <<"1", "1", "1">>,
     <<".", "1">>, <<".", "3">>, <<"1", ".", "1">>,
     <<"i", "n", "f">>, <<"-", "i", "n", "f">>, <<"n", "a", "n">>}

\* the runs a a /, a b c * * and a b * c * of the unit-aware calculator
UnitlessArgs ==
    {<<a, a, TokDiv>> : a \in ValueTokens}
    \cup {<<t[1], t[2], t[3], <<"*">>, <<"*">>>> : t \in ValueTokens \X ValueTokens \X ValueTokens}
    \cup {<<t[1], t[2], <<"*">>, t[3], <<"*">>>> : t \in ValueTokens \X ValueTokens \X ValueTokens}

InitUnitless ==
    /\ args \in UnitlessArgs
    /\ conversions = Conversions
    /\ i = 1
    /\ stack = <<>>
    /\ stdout = <<>>
    /\ stderr = <<>>
    /\ pc = "loop"
    /\ exit = -1

NextUnitless ==
    \/ PushNumber
    \/ DoMul
    \/ DoDiv
    \/ PrintStack

SpecUnitless == InitUnitless /\ [][NextUnitless]_vars

\* ------------------------------------- rcalc.rs on chains of operators
\* the smallest and the largest factors of the table, and a plain number
OperandTokens == {<<"1", "m", "m">>, <<"1", "k", "m">>, <<"2">>}

ChainOperators == {TokAdd, TokSub, <<"*">>, TokDiv}

\* k operands followed by the k - 1 operators that fold them into one Unit
ChainArgs(k) ==
    {u \o o : u \in [1..k -> OperandTokens], o \in [1..(k - 1) -> ChainOperators]}

InitChain ==
    /\ \E k \in 1..MaxOperands : args \in ChainArgs(k)
    /\ conversions = Conversions
    /\ i = 1
    /\ stack = <<>>
    /\ stdout = <<>>
    /\ stderr = <<>>
    /\ pc = "loop"
    /\ exit = -1

NextChain ==
    \/ PushNumber
    \/ PushUnit
    \/ DoAdd
    \/ DoSub
    \/ DoMul
    \/ DoDiv
    \/ PrintStack

SpecChain == InitChain /\ [][NextChain]_vars

\* ------------------------------------------------------------- calc.rs
ValueNew(value, numerator, denominator) ==
    [value |-> value, numerator |-> numerator, denominator |-> denominator]

\* format!("{} {} / {}", value, numerator, denominator); {} prints the shortest
\* decimal that reads back as the same f64, kept here as the f64 itself
ValueToString(v) == [value |-> v.value, units |-> v.numerator \o <<" ", "/", " ">> \o v.denominator]

\* for val in stack.iter().rev()
CalcLines(st) == [k \in 1..Len(st) |-> ValueToString(st[Len(st) + 1 - k])]

CalcUnknownLine(s) == <<"Unknown operator: ", s>>
UnderflowLine == <<"thread 'main' panicked", "Stack underflow">>

\* let b = stack.pop().expect(..); let a = stack.pop().expect(..);
\* ok is false when one of the two panics; stack is what the pops that ran left
CalcPopTwo(st) ==
    IF Len(st) >= 2
    THEN [ok |-> TRUE, b |-> st[Len(st)], a |-> st[Len(st) - 1],
          stack |-> SubSeq(st, 1, Len(st) - 2)]
    ELSE [ok |-> FALSE, stack |-> <<>>]

CalcAddValue(a, b) == ValueNew(FAdd(a.value, b.value), a.numerator, a.denominator)

CalcSubValue(a, b) == ValueNew(FSub(a.value, b.value), a.numerator, a.denominator)

CalcMulValue(a, b) ==
    ValueNew(FMul(a.value, b.value),
             a.numerator \o <<" ">> \o b.numerator,
             a.denominator \o <<" ">> \o b.denominator)

CalcDivValue(a, b) ==
    ValueNew(FDiv(a.value, b.value),
             a.numerator \o <<" ">> \o b.denominator,
             a.denominator \o <<" ">> \o b.numerator)

CalcRemValue(a, b) == ValueNew(FRem(a.value, b.value), <<>>, <<>>)

\* CalcMeanStack with stack.clear() left out
CalcMeanNoClear(st) ==
    Append(st, ValueNew(FDiv(SumValues(st), FromInt(Len(st))), <<>>, <<>>))

\* the "mean" arm: sum / count, clear, push
CalcMeanStack(st) ==
    LET sum == SumValues(st)
        count == FromInt(Len(st))
        avg == FDiv(sum, count)
    IN  <<ValueNew(avg, <<>>, <<>>)>>

TokRem == <<"%">>

\* the argument lists the simpler calculator is run on
CalcTokens ==
    {TokAdd, TokSub, TokDiv, TokRem, TokMean} \cup TokMul \cup
    {<<"2">>, <<"4">>, <<"6">>, <<"f", "o", "o">>}

InitCalc ==
    /\ args \in ArgLists(CalcTokens, MaxCalcArgs)
    /\ conversions = <<>>
    /\ i = 1
    /\ stack = <<>>
    /\ stdout = <<>>
    /\ stderr = <<>>
    /\ pc = "loop"
    /\ exit = -1

\* Err(_) => match arg.as_str()
AtOperator == AtArg /\ ~ParseF64(args[i]).ok

\* Ok(num) => push
CalcPush ==
    /\ AtArg
    /\ ParseF64(args[i]).ok
    /\ stack' = Append(stack, ValueNew(ParseF64(args[i]).value, <<>>, <<>>))
    /\ i' = i + 1
    /\ UNCHANGED <<args, conversions, stdout, stderr, pc, exit>>

\* CalcBinary with the shortage reported and the loop going on
CalcBinarySkips(p, v) ==
    IF p.ok
    THEN /\ stack' = Append(p.stack, v)
         /\ i' = i + 1
         /\ UNCHANGED <<args, conversions, stdout, stderr, pc, exit>>
    ELSE /\ stack' = p.stack
         /\ stderr' = Append(stderr, UnderflowLine)
         /\ i' = i + 1
         /\ UNCHANGED <<args, conversions, stdout, pc, exit>>

\* a binary arm: two pops, then the push, or the panic of expect
CalcBinary(p, v) ==
    IF p.ok
    THEN /\ stack' = Append(p.stack, v)
         /\ i' = i + 1
         /\ UNCHANGED <<args, conversions, stdout, stderr, pc, exit>>
    ELSE /\ stack' = p.stack
         /\ stderr' = Append(stderr, UnderflowLine)
         /\ pc' = "panicked"
         /\ exit' = 101
         /\ UNCHANGED <<args, conversions, i, stdout>>

CalcAdd ==
    /\ AtOperator
    /\ args[i] = TokAdd
    /\ LET p == CalcPopTwo(stack) IN CalcBinary(p, IF p.ok THEN CalcAddValue(p.a, p.b) ELSE <<>>)

CalcSub ==
    /\ AtOperator
    /\ args[i] = TokSub
    /\ LET p == CalcPopTwo(stack) IN CalcBinary(p, IF p.ok THEN CalcSubValue(p.a, p.b) ELSE <<>>)

CalcMul ==
    /\ AtOperator
    /\ args[i] \in TokMul
    /\ LET p == CalcPopTwo(stack) IN CalcBinary(p, IF p.ok THEN CalcMulValue(p.a, p.b) ELSE <<>>)

CalcDiv ==
    /\ AtOperator
    /\ args[i] = TokDiv
    /\ LET p == CalcPopTwo(stack) IN CalcBinary(p, IF p.ok THEN CalcDivValue(p.a, p.b) ELSE <<>>)

CalcRem ==
    /\ AtOperator
    /\ args[i] = TokRem
    /\ LET p == CalcPopTwo(stack) IN CalcBinary(p, IF p.ok THEN CalcRemValue(p.a, p.b) ELSE <<>>)

CalcMean ==
    /\ AtOperator
    /\ args[i] = TokMean
    /\ stack' = CalcMeanStack(stack)
    /\ i' = i + 1
    /\ UNCHANGED <<args, conversions, stdout, stderr, pc, exit>>

\* _ => println!("Unknown operator: ..."); process::exit(1)
CalcUnknown ==
    /\ AtOperator
    /\ args[i] \notin {TokAdd, TokSub, TokDiv, TokRem, TokMean} \cup TokMul
    /\ stdout' = Append(stdout, CalcUnknownLine(args[i]))
    /\ pc' = "exited"
    /\ exit' = 1
    /\ UNCHANGED <<args, conversions, i, stack, stderr>>

CalcPrint ==
    /\ pc = "loop"
    /\ i > Len(args)
    /\ stdout' = stdout \o CalcLines(stack)
    /\ pc' = "done"
    /\ exit' = 0
    /\ UNCHANGED <<args, conversions, i, stack, stderr>>

NextCalc ==
    \/ CalcPush
    \/ CalcAdd
    \/ CalcSub
    \/ CalcMul
    \/ CalcDiv
    \/ CalcRem
    \/ CalcMean
    \/ CalcUnknown
    \/ CalcPrint

SpecCalc == InitCalc /\ [][NextCalc]_vars

\* ------------------------------------------------------------------ claims
\* the vocabulary of the claims, stated on the argument list
BinaryTokens == {TokAdd, TokSub, TokDiv} \cup TokMul

HasKeySuffix(t) == Len(t) >= 2 /\ SubSeq(t, Len(t) - 1, Len(t)) \in ConversionKeys

IsFloatToken(t) == ParseF64(t).ok

IsUnknownToken(t) == ~IsFloatToken(t) /\ t \notin OperatorTokens /\ ~HasKeySuffix(t)

IsLiteralToken(t) == t \notin OperatorTokens /\ (IsFloatToken(t) \/ HasKeySuffix(t))

FirstUnknown == CHOOSE k \in 1..Len(args) :
                    IsUnknownToken(args[k]) /\ \A j \in 1..(k - 1) : ~IsUnknownToken(args[j])

\* C1: a binary operator invoked on a stack of depth 0 or 1 leaves the stack
\* as it was, the same elements in the same order.
C1_ShortageLeavesStack ==
    [][(AtArg /\ args[i] \in BinaryTokens /\ Len(stack) < 2) => stack' = stack]_vars

\* C2: when the argument list holds an unknown token, the run ends with a
\* nonzero exit code, stopped at the first unknown token, with nothing of the
\* stack on stdout.
C2_UnknownTokenExitsNonzero ==
    (pc # "loop" /\ \E k \in 1..Len(args) : IsUnknownToken(args[k]))
        => (exit # 0 /\ i = FirstUnknown /\ stdout = <<>>)

\* C3: every unknown token, of any length, gets the unknown-operator
\* diagnostic naming it on the diagnostic stream, and the run then returns.
C3_UnknownTokenDiagnosed ==
    [][(AtArg /\ IsUnknownToken(args[i]))
          => (stderr' = Append(stderr, UnknownOperatorLine(args[i])) /\ pc' = "returned")]_vars

\* the literals and the binary operators among the first k arguments
NLit(k) == Cardinality({j \in 1..k : IsLiteralToken(args[j])})
NOp(k) == Cardinality({j \in 1..k : args[j] \in BinaryTokens})

OnlyLiteralsAndBinary(k) ==
    \A j \in 1..k : IsLiteralToken(args[j]) \/ args[j] \in BinaryTokens

\* every binary operator among the first k arguments finds two operands
Sufficient(k) == \A j \in 1..k : args[j] \in BinaryTokens => NLit(j - 1) - NOp(j - 1) >= 2

\* C4: after any prefix of literals and binary operators in which every
\* operator finds two operands, the depth of the stack is the number of
\* literals minus the number of binary operators (so at the end of the list).
C4_DepthIsLiteralsMinusOperators ==
    (OnlyLiteralsAndBinary(i - 1) /\ Sufficient(i - 1))
        => Len(stack) = NLit(i - 1) - NOp(i - 1)

C4_Witness ==
    /\ pc = "done"
    /\ Len(args) = 4
    /\ OnlyLiteralsAndBinary(4) /\ Sufficient(4)
    /\ NOp(4) = 1
    /\ \E j \in 1..4 : HasKeySuffix(args[j])
    /\ Len(stack) = 2

\* C5: mean applied to an empty stack pushes no NaN value.
C5_MeanOfEmptyGuarded ==
    [][(AtArg /\ args[i] = TokMean /\ stack = <<>>)
          => \A k \in 1..Len(stack') : ~IsNaN(stack'[k].value)]_vars

\* C6: mean applied to a non-empty stack leaves exactly one element, whose
\* value is the sum of the values divided by their count and whose labels
\* are empty.
C6_MeanReplacesStack ==
    [][(AtArg /\ args[i] = TokMean /\ stack # <<>>)
          => /\ Len(stack') = 1
             /\ stack'[1].value = FDiv(SumValues(stack), FromInt(Len(stack)))
             /\ stack'[1].numerator = <<>>
             /\ stack'[1].denominator = <<>>]_vars

C6_Witness ==
    /\ args = <<<<"2">>, <<"4">>, <<"6">>, TokMean>>
    /\ i = 5
    /\ Len(stack) = 1
    /\ stack[1].value = FromInt(4)

\* C7: a non-float token whose last two characters are a key of the table
\* pushes exactly one Unit: factor the table's value for the suffix, value
\* 1.0, numerator the text before the suffix.
C7_SuffixPushesUnit ==
    [][(AtArg /\ ~IsFloatToken(args[i]) /\ HasKeySuffix(args[i]))
          => LET t == args[i]
                 top == stack'[Len(stack')]
             IN  /\ Len(stack') = Len(stack) + 1
                 /\ SubSeq(stack', 1, Len(stack)) = stack
                 /\ top.factor = Conversions[SubSeq(t, Len(t) - 1, Len(t))]
                 /\ top.value = FromInt(1)
                 /\ top.numerator = SubSeq(t, 1, Len(t) - 2)]_vars

C7_Witness ==
    /\ args = <<<<"1", "k", "m">>>>
    /\ i = 2
    /\ Len(stack) = 1
    /\ stack[1].factor = FromInt(1000)
    /\ stack[1].value = FromInt(1)
    /\ stack[1].numerator = <<"1">>

\* C8: for every key k of the table, the token made of a numeric prefix and k
\* is pushed as a Unit with k's factor.
C8_EveryKeyIsASuffix ==
    [][(AtArg /\ \E k \in ConversionKeys : args[i] = <<"1">> \o k)
          => /\ Len(stack') = Len(stack) + 1
             /\ stack'[Len(stack')].factor = Conversions[Tail(args[i])]]_vars

\* C9: a binary operator met with fewer than two operands writes the
\* diagnostic and the loop goes on to the next argument; a run ends early only
\* at an unknown token, and otherwise it ends after the last argument, exit
\* code 0, with the stack printed.
C9_ShortageIsNotFatal ==
    [][/\ (AtArg /\ args[i] \in BinaryTokens /\ Len(stack) < 2)
             => /\ stderr' = Append(stderr, NotEnough)
                /\ i' = i + 1
                /\ pc' = "loop" /\ exit' = -1
                /\ stdout' = stdout
       /\ pc' # "loop"
             => \/ pc' = "done" /\ exit' = 0 /\ i' = Len(args) + 1
                      /\ Len(stdout') = Len(stack')
                \/ i' <= Len(args) /\ IsUnknownToken(args[i'])]_vars

C9_Witness ==
    /\ pc = "done"
    /\ Len(args) = 4
    /\ args[1] \in BinaryTokens
    /\ \A j \in 2..4 : IsLiteralToken(args[j])
    /\ stderr = <<NotEnough>>
    /\ Len(stdout) = 3

\* C10: on normal completion the printed lines are the stack's elements from
\* the bottom to the top, one line each, with the element's value (to four
\* decimals), numerator and denominator.
C10_LinesBottomToTop ==
    pc = "done" =>
        /\ Len(stdout) = Len(stack)
        /\ \A k \in 1..Len(stack) :
              /\ stdout[k].value = Fmt4(stack[k].value)
              /\ stdout[k].units = stack[k].numerator \o <<"/">> \o stack[k].denominator

C10_Witness ==
    /\ pc = "done"
    /\ Len(stack) = 3
    /\ stdout[1] # stdout[3]
    /\ stack[3].numerator # <<>>

\* a a / has run: the two pushes of the same unitless value, then div
DivSelfDone ==
    /\ Len(args) = 3 /\ args[3] = TokDiv /\ args[1] = args[2]
    /\ IsFloatToken(args[1])
    /\ i = 4

\* C11 as stated: for every unitless value a, a a / leaves value 1 and
\* factor 1 on top.
C11_DivSelfIsOne ==
    DivSelfDone => (Len(stack) = 1 /\ stack[1].value = FromInt(1)
                        /\ stack[1].factor = FromInt(1))

\* C11 amended: for every finite, nonzero unitless value a, a a / leaves
\* value 1 and factor 1 on top.
C11_DivSelfIsOneNonzero ==
    (DivSelfDone /\ ParseF64(args[1]).value.cls = "fin" /\ ~IsZero(ParseF64(args[1]).value))
        => (Len(stack) = 1 /\ stack[1].value = FromInt(1)
                /\ stack[1].factor = FromInt(1))

C11_Witness ==
    /\ args = <<<<"1", ".", "1">>, <<"1", ".", "1">>, TokDiv>>
    /\ i = 4
    /\ stack[1].value = FromInt(1)

\* the stacks the two groupings leave, from the empty stack
PushPlain(st, t) == Push(st, ParseF64(t).value, <<>>, <<>>, FromInt(1))
\* a b c * *
InnerFirst(a, b, c) == Mul(Mul(PushPlain(PushPlain(PushPlain(<<>>, a), b), c)).stack).stack
\* a b * c *
OuterFirst(a, b, c) == Mul(PushPlain(Mul(PushPlain(PushPlain(<<>>, a), b)).stack, c)).stack

\* one of the two runs has evaluated its five tokens
InnerFirstDone ==
    Len(args) = 5 /\ args[4] = <<"*">> /\ args[5] = <<"*">> /\ i = 6
OuterFirstDone ==
    Len(args) = 5 /\ args[3] = <<"*">> /\ args[5] = <<"*">> /\ i = 6

SameValueAndFactor(st, other) ==
    /\ Len(st) = 1 /\ Len(other) = 1
    /\ st[1].value = other[1].value
    /\ st[1].factor = other[1].factor

\* C12 as stated: for all unitless a, b, c the two groupings leave a single
\* Unit each, with the same value and the same factor.
C12_MulAssociative ==
    /\ InnerFirstDone => SameValueAndFactor(stack, OuterFirst(args[1], args[2], args[3]))
    /\ OuterFirstDone => SameValueAndFactor(stack, InnerFirst(args[1], args[2], args[4]))

\* x * y is computed without rounding, overflow or underflow
ExactMul(x, y) ==
    /\ x.cls = "fin" /\ y.cls = "fin"
    /\ LET p == x.m * y.m
           e == x.q + y.q
           r == FMul(x, y)
       IN  \/ p = 0
           \/ /\ r.cls = "fin" /\ r.m # 0
              /\ IF r.q >= e
                 THEN r.q - e <= 2 * Prec /\ r.m * Pow2(r.q - e) = p
                 ELSE r.m = p * Pow2(e - r.q)

\* every product of the two groupings of a, b, c is exact
ExactProducts(ta, tb, tc) ==
    LET a == ParseF64(ta).value
        b == ParseF64(tb).value
        c == ParseF64(tc).value
    IN  /\ ExactMul(c, b) /\ ExactMul(FMul(c, b), a)
        /\ ExactMul(b, a) /\ ExactMul(c, FMul(b, a))

\* C12 amended: the two groupings leave a single Unit each, with the same
\* factor; the values are the same when no product of either grouping is
\* rounded, overflows or underflows.
C12_MulAssociativeWhenExact ==
    /\ InnerFirstDone =>
          LET o == OuterFirst(args[1], args[2], args[3])
          IN  /\ Len(stack) = 1 /\ Len(o) = 1
              /\ stack[1].factor = o[1].factor
              /\ ExactProducts(args[1], args[2], args[3]) => stack[1].value = o[1].value
    /\ OuterFirstDone =>
          LET o == InnerFirst(args[1], args[2], args[4])
          IN  /\ Len(stack) = 1 /\ Len(o) = 1
              /\ stack[1].factor = o[1].factor
              /\ ExactProducts(args[1], args[2], args[4]) => stack[1].value = o[1].value

C12_Witness ==
    /\ args = <<<<"1", "1">>, <<"1", "1">>, <<"-", "1">>, <<"*">>, <<"*">>>>
    /\ i = 6
    /\ ExactProducts(args[1], args[2], args[3])
    /\ stack[1].value = FromInt(0 - 121)


\* the token at hand is one of toks and the stack holds its two operands
OperatorHasOperands(toks) ==
    AtArg /\ args[i] \in toks /\ Len(stack) >= 2

\* the stack below the two operands
Bottom(st) == SubSeq(st, 1, Len(st) - 2)

\* C13: from every stack of depth >= 2, add and sub both pop a (top) then b
\* and push one Unit with (value, numerator, denominator) = b.convert(a) and
\* factor = a.factor; the stack after add equals the stack after sub.
C13_AddSubIdentical ==
    [][OperatorHasOperands({TokAdd, TokSub}) =>
          LET a == stack[Len(stack)]
              b == stack[Len(stack) - 1]
              c == Convert(b, a)
          IN  /\ stack' = Append(Bottom(stack), UnitNew(c[1], c[2], c[3], a.factor))
              /\ Add(stack) = Sub(stack)]_vars

C13_Witness ==
    /\ args = <<<<"1", "k", "m">>, <<"2", "c", "m">>, TokSub>>
    /\ i = 4
    /\ Len(stack) = 1
    /\ stack[1].factor = Conversions[<<"c", "m">>]

\* what the claim says self.convert(other) returns
ConvertAsStated(self, other) ==
    <<FDiv(FMul(self.value, FMul(other.factor, self.factor)), other.value),
      IF self.numerator = other.numerator
      THEN other.numerator ELSE other.numerator \o self.numerator,
      IF self.denominator = other.denominator
      THEN self.denominator ELSE self.denominator \o other.denominator>>

\* C14: self.convert(other) returns numerator = other.numerator when the
\* numerators are equal and otherwise other.numerator then self.numerator;
\* denominator = self.denominator when the denominators are equal and
\* otherwise self.denominator then other.denominator; value = self.value *
\* (other.factor * self.factor) / other.value. Checked for the two Units on
\* top of every stack, in both orders, and for the Unit that add and sub
\* push from them; the factor pushed afterwards is still other's factor.
C14_ConvertFields ==
    [][Len(stack) >= 2 =>
          LET other == stack[Len(stack)]
              self == stack[Len(stack) - 1]
          IN  /\ Convert(self, other) = ConvertAsStated(self, other)
              /\ Convert(other, self) = ConvertAsStated(other, self)
              /\ OperatorHasOperands({TokAdd, TokSub}) =>
                    LET r == stack'[Len(stack')]
                    IN  /\ <<r.value, r.numerator, r.denominator>>
                              = ConvertAsStated(self, other)
                        /\ r.factor = other.factor]_vars

C14_Witness ==
    /\ args = <<<<"1", "k", "m">>, <<"2", "c", "m">>, TokAdd>>
    /\ i = 4
    /\ Len(stack) = 1
    /\ stack[1].numerator = <<"2", "1">>
    /\ stack[1].denominator = <<"k", "m", "c", "m">>

\* C15: for every stack of depth >= 2 with top a and next b, div pushes a
\* Unit with value = b.value / a.value, numerator = a.denominator then
\* b.numerator, denominator = a.numerator then b.denominator, and factor =
\* b.factor / a.factor.
C15_DivFields ==
    [][OperatorHasOperands({TokDiv}) =>
          LET a == stack[Len(stack)]
              b == stack[Len(stack) - 1]
          IN  stack' = Append(Bottom(stack),
                              UnitNew(FDiv(b.value, a.value),
                                      a.denominator \o b.numerator,
                                      a.numerator \o b.denominator,
                                      FDiv(b.factor, a.factor)))]_vars

C15_Witness ==
    /\ args = <<<<"1", "k", "m">>, <<"2">>, TokDiv>>
    /\ i = 4
    /\ Len(stack) = 1
    /\ stack[1].value = FDiv(FromInt(1), FromInt(2))
    /\ stack[1].denominator = <<"k", "m">>

\* C17: a binary operator on a stack of depth n >= 2 leaves the bottom n-2
\* elements as they were, in order, with one element above them; no step
\* changes the conversions mapping.
C17_OnlyTopChanges ==
    [][/\ OperatorHasOperands(BinaryTokens) =>
              /\ Len(stack') = Len(stack) - 1
              /\ Bottom(stack) = SubSeq(stack', 1, Len(stack') - 1)
       /\ conversions' = conversions]_vars

C17_Witness ==
    /\ args = <<<<"2">>, <<"1", "k", "m">>, <<"2", "c", "m">>, <<"*">>>>
    /\ i = 5
    /\ Len(stack) = 2
    /\ stack[1] = UnitNew(FromInt(2), <<>>, <<>>, FromInt(1))
    /\ conversions = Conversions

\* x > 0: not NaN, not negative, not zero
StrictlyPositive(x) == ~IsNaN(x) /\ ~x.neg /\ ~IsZero(x)

\* C16 as stated: in every reachable state every Unit on the stack has a
\* strictly positive factor.
C16_FactorStrictlyPositive ==
    \A j \in DOMAIN stack : StrictlyPositive(stack[j].factor)

\* the binary operators of calc.rs
CalcBinaryTokens == BinaryTokens \cup {TokRem}

\* C18: in calc.rs a binary operator (+, -, *, ., /, %) met with fewer than
\* two values on the stack ends the run at once: the exit status is
\* nonzero, the position stays on that token, nothing has been or is
\* printed, and no step is taken after the abort.
C18_UnderflowIsFatal ==
    [][/\ pc # "panicked"
       /\ (AtOperator /\ args[i] \in CalcBinaryTokens /\ Len(stack) < 2) =>
              /\ pc' = "panicked"
              /\ exit' > 0
              /\ i' = i
              /\ stdout = <<>>
              /\ stdout' = <<>>]_vars

C18_Witness ==
    /\ args = <<<<"2">>, TokRem, <<"4">>, <<"6">>>>
    /\ pc = "panicked"
    /\ i = 2
    /\ exit > 0
    /\ stdout = <<>>

=============================================================================
